---------------------------- MODULE Spec2Model ----------------------------
(***************************************************************************)
(* A model of src/src/helpers/yt.py and src/src/helpers/utils.py: one      *)
(* download job per Streamlit session (download_yt_video), from source     *)
(* resolution over option selection, stream download and audio fallback to *)
(* muxing and presentation, with the local file system shared by all       *)
(* sessions.  The third-party calls (pytubefix, moviepy) are the            *)
(* environment: their outcomes are drawn nondeterministically.             *)
(***************************************************************************)
EXTENDS Integers, Sequences, FiniteSets, TLC

(***************************************************************************)
(* Bounds of the model.                                                    *)
(***************************************************************************)
NumSessions == 2
MaxRemovals == 1
MaxLabels == 3

Sessions == 1 .. NumSessions

(***************************************************************************)
(* Python's None and the empty string: both are falsy, and the code only   *)
(* ever tests labels with "if not x".                                      *)
(***************************************************************************)
None == << >>

(***************************************************************************)
(* Stream labels, as the strings pytubefix reports them, one character per *)
(* element.                                                                *)
(***************************************************************************)
R144p == <<"1", "4", "4", "p">>
R360p == <<"3", "6", "0", "p">>
R720p == <<"7", "2", "0", "p">>
R1080p == <<"1", "0", "8", "0", "p">>
B48kbps == <<"4", "8", "k", "b", "p", "s">>
B128kbps == <<"1", "2", "8", "k", "b", "p", "s">>
B160kbps == <<"1", "6", "0", "k", "b", "p", "s">>

Resolutions == {R144p, R360p, R720p, R1080p}
BitRates == {B48kbps, B128kbps, B160kbps}

(***************************************************************************)
(* The fixed names of const.py, imported at yt.py:18-25 and utils.py:6.    *)
(***************************************************************************)
MIME == [type |-> "video", subtype |-> "mp4"]
AUDIO_MIME == [type |-> "audio", subtype |-> "mp4"]
DEFAULT_NAME == "video.mp4"
DEFAULT_AUDIO_NAME == "audio.mp4"
AUDIO_SOURCE_NAME == "audio_source.mp4"
FixedNames == {DEFAULT_NAME, DEFAULT_AUDIO_NAME, AUDIO_SOURCE_NAME}

(***************************************************************************)
(* A pytubefix Stream: its mime type, whether it is progressive (audio and *)
(* video in one file), its label (resolution of a video stream, abr of an  *)
(* audio stream) and whether it is served over SABR.                       *)
(***************************************************************************)
NoStream == [type |-> "none", subtype |-> "none", progressive |-> FALSE,
             label |-> None, is_sabr |-> FALSE]

VideoStream(res, subtype) ==
    [type |-> "video", subtype |-> subtype, progressive |-> FALSE,
     label |-> res, is_sabr |-> FALSE]

ProgressiveStream(res, subtype) ==
    [type |-> "video", subtype |-> subtype, progressive |-> TRUE,
     label |-> res, is_sabr |-> FALSE]

AudioStream(abr, sabr) ==
    [type |-> "audio", subtype |-> "mp4", progressive |-> FALSE,
     label |-> abr, is_sabr |-> sabr]

(***************************************************************************)
(* The stream lists (yt_obj.streams) a resolved source may expose.         *)
(***************************************************************************)
AdaptiveOnly == << VideoStream(R720p, "mp4"), AudioStream(B128kbps, FALSE) >>

ProgressiveOnly ==
    << ProgressiveStream(R360p, "mp4"), ProgressiveStream(R1080p, "mp4") >>

Mixed ==
    << ProgressiveStream(R360p, "mp4"),
       VideoStream(R720p, "mp4"), VideoStream(R1080p, "mp4"),
       VideoStream(R720p, "webm"), VideoStream(R720p, "mp4"),
       AudioStream(B48kbps, FALSE), AudioStream(B128kbps, FALSE),
       AudioStream(B128kbps, TRUE), AudioStream(B48kbps, FALSE) >>

SabrAudio ==
    << ProgressiveStream(R144p, "webm"), ProgressiveStream(R360p, "webm"),
       VideoStream(R720p, "mp4"), AudioStream(B128kbps, TRUE) >>

NoProgressive == << VideoStream(R1080p, "mp4"), AudioStream(B160kbps, TRUE) >>

Catalogs == {AdaptiveOnly, ProgressiveOnly, Mixed, SabrAudio, NoProgressive}

(***************************************************************************)
(* int(x): the value of a string of decimal digits.                        *)
(***************************************************************************)
DigitVal(c) ==
    CASE c = "0" -> 0 [] c = "1" -> 1 [] c = "2" -> 2 [] c = "3" -> 3
      [] c = "4" -> 4 [] c = "5" -> 5 [] c = "6" -> 6 [] c = "7" -> 7
      [] c = "8" -> 8 [] c = "9" -> 9

IsDigit(c) == c \in {"0", "1", "2", "3", "4", "5", "6", "7", "8", "9"}

RECURSIVE ParseInt(_)
ParseInt(str) ==
    IF Len(str) = 1 THEN DigitVal(str[1])
    ELSE 10 * ParseInt(SubSeq(str, 1, Len(str) - 1)) + DigitVal(str[Len(str)])

Range(seq) == {seq[i] : i \in DOMAIN seq}

(***************************************************************************)
(* sort_results: sorted(set(results), key=int(x[:-slice_range]),           *)
(* reverse=True).  The set's iteration order is arbitrary, so labels of    *)
(* equal key come out in an arbitrary order.                               *)
(***************************************************************************)
SortKey(x, slice_range) == ParseInt(SubSeq(x, 1, Len(x) - slice_range))

RECURSIVE SortedDesc(_, _)
SortedDesc(S, slice_range) ==
    IF S = {} THEN << >>
    ELSE LET m == CHOOSE x \in S :
                     \A y \in S : SortKey(y, slice_range) <= SortKey(x, slice_range)
         IN  <<m>> \o SortedDesc(S \ {m}, slice_range)

RECURSIVE Reversed(_)
Reversed(seq) == IF seq = << >> THEN << >> ELSE Reversed(Tail(seq)) \o <<Head(seq)>>

sort_results_ascending(results, slice_range) ==
    Reversed(SortedDesc(Range(results), slice_range))
sort_results(results, slice_range) == SortedDesc(Range(results), slice_range)

(***************************************************************************)
(* StreamQuery.filter as yt.py uses it, and .first().  pytubefix applies a  *)
(* keyword only when it is truthy: progressive=False and res=None restrict *)
(* nothing.                                                                *)
(***************************************************************************)
Labels(streams) == [i \in DOMAIN streams |-> streams[i].label]

First(streams) == IF streams = << >> THEN NoStream ELSE Head(streams)

po_token_present(yt_obj) == yt_obj.po_token = "token"

ResolutionQuery(yt_obj, progressive) ==
    LET Test(st) == /\ st.type = MIME.type
                    /\ st.subtype = MIME.subtype
                    /\ (progressive => st.progressive)
    IN  SelectSeq(yt_obj.streams, Test)

search_yt_resolution(yt_obj, progressive) ==
    sort_results(Labels(ResolutionQuery(yt_obj, progressive)), 1)

AudioQuery(yt_obj, abr) ==
    LET Test(st) == /\ st.type = "audio"
                    /\ (abr # None => st.label = abr)
                    /\ (~po_token_present(yt_obj) => ~st.is_sabr)
    IN  SelectSeq(yt_obj.streams, Test)

search_bit_rates(yt_obj) == sort_results(Labels(AudioQuery(yt_obj, None)), 4)

VideoQuery(yt_obj, resolution, progressive) ==
    LET Test(st) == /\ st.type = "video"
                    /\ (resolution # None => st.label = resolution)
                    /\ (progressive => st.progressive)
    IN  SelectSeq(yt_obj.streams, Test)

(***************************************************************************)
(* _select_progressive_stream: the first progressive stream of the highest *)
(* resolution score, among the mp4 ones when there are any.                *)
(***************************************************************************)
Digits(str) == SelectSeq(str, IsDigit)

resolution_score(st) ==
    IF st.label # None /\ st.label[Len(st.label)] = "p" /\ Digits(st.label) # << >>
    THEN ParseInt(Digits(st.label))
    ELSE 0

MaxBy(streams) ==
    LET best == CHOOSE i \in DOMAIN streams :
                    /\ \A j \in DOMAIN streams :
                           resolution_score(streams[j]) <= resolution_score(streams[i])
                    /\ \A j \in 1 .. (i - 1) :
                           resolution_score(streams[j]) < resolution_score(streams[i])
    IN  streams[best]

select_progressive_stream(yt_obj) ==
    LET IsProg(st) == st.progressive
        IsProgExt(st) == st.progressive /\ st.subtype = "mp4"
        withExt == SelectSeq(yt_obj.streams, IsProgExt)
        any == SelectSeq(yt_obj.streams, IsProg)
        progressive_streams == IF withExt # << >> THEN withExt ELSE any
    IN  IF progressive_streams = << >> THEN NoStream ELSE MaxBy(progressive_streams)


(***************************************************************************)
(* The local file system.  A path is a directory and a file name; every    *)
(* download is given output_path=SAVE_PATH and a fixed file name, and      *)
(* moviepy and open() are handed the bare name in the same working         *)
(* directory.  A file's content records what it holds and the sessions     *)
(* whose jobs the bytes come from.                                         *)
(***************************************************************************)
SAVE_PATH == 0

Dirs == 0 .. NumSessions
Paths == Dirs \X FixedNames

FilePathOfSession(s, name) == <<s, name>>
FilePath(s, name) == <<SAVE_PATH, name>>

Absent == [what |-> "absent", from |-> {}]
Content(s, what) == [what |-> what, from |-> {s}]

(***************************************************************************)
(* State.                                                                  *)
(*   pc        where each session's script run stands                      *)
(*   yt        the YouTube object get_yt_obj returned                      *)
(*   options   the option lists shown by download_yt_video                 *)
(*   args      the arguments of prepare_yt_media                           *)
(*   sel       the streams the job selected, in order, with their role     *)
(*   log       the calls made and messages shown by the job, in order      *)
(*   result    what prepare_yt_media returned                              *)
(*   presented the content handed to st.download_button                    *)
(*   fs        the files, shared by all sessions                           *)
(*   removals  how many files were removed from outside the program        *)
(***************************************************************************)
VARIABLES pc, yt, options, args, sel, log, result, presented, fs, removals

vars == <<pc, yt, options, args, sel, log, result, presented, fs, removals>>

NoYt == [streams |-> << >>, client |-> "none", po_token |-> "absent",
         po_token_data |-> FALSE]
NoArgs == [resolution |-> None, progressive |-> TRUE, bit_rate |-> None,
           audio_only |-> FALSE, entry |-> "none"]
NoOptions == [resolutions |-> << >>, bit_rates |-> << >>,
              res_source |-> << >>, abr_source |-> << >>]
NoResult == [file |-> "none", mime |-> "none"]

Init ==
    /\ pc = [s \in Sessions |-> "start"]
    /\ yt = [s \in Sessions |-> NoYt]
    /\ options = [s \in Sessions |-> NoOptions]
    /\ args = [s \in Sessions |-> NoArgs]
    /\ sel = [s \in Sessions |-> << >>]
    /\ log = [s \in Sessions |-> << >>]
    /\ result = [s \in Sessions |-> NoResult]
    /\ presented = [s \in Sessions |-> Absent]
    /\ fs = [p \in Paths |-> Absent]
    /\ removals = 0

Goto(s, label) == pc' = [pc EXCEPT ![s] = label]
Emit(s, events) == log' = [log EXCEPT ![s] = @ \o events]
Select(s, role, stream) ==
    sel' = [sel EXCEPT ![s] = Append(@, [role |-> role, stream |-> stream])]
Save(s, name, what) == fs' = [fs EXCEPT ![FilePath(s, name)] = Content(s, what)]

(***************************************************************************)
(* The outcomes of the environment's calls.                                *)
(*   _prepare_po_token: raises, returns a pair, or returns a pair whose    *)
(*     generated PoToken is the empty string;                              *)
(*   YouTube(...): returns, or raises one of the exceptions get_yt_obj     *)
(*     catches;                                                            *)
(*   stream.download: writes the file, raises SABRError, or raises another *)
(*     error (URLError, HTTPError).                                        *)
(***************************************************************************)
TokenOutcomes == {"raise", "pair", "empty_pot"}
CtorOutcomes == {"ok", "unavailable"}
DownloadOutcomes == {"ok", "sabr", "error"}

(***************************************************************************)
(* get_yt_obj.                                                             *)
(***************************************************************************)
yt_client_web(po_token_data) == "WEB"
yt_client(po_token_data) == IF po_token_data THEN "WEB" ELSE "ANDROID_VR"

get_yt_obj(s, catalogs, tokens, ctors) ==
    /\ pc[s] = "start"
    /\ \E streams \in catalogs, tok \in tokens, ctor \in ctors :
         LET po_token_data == tok # "raise"
             warning == IF tok = "raise" THEN <<"warn_po_token">> ELSE << >>
             client == yt_client(po_token_data)
         IN  IF ctor = "ok"
             THEN /\ yt' = [yt EXCEPT ![s] =
                       [streams |-> streams,
                        client |-> client,
                        po_token |-> IF po_token_data
                                     THEN (IF tok = "pair" THEN "token" ELSE "empty")
                                     ELSE "absent",
                        po_token_data |-> po_token_data]]
                  /\ Emit(s, warning \o
                             (IF po_token_data THEN <<"apply_po_token">> ELSE << >>))
                  /\ Goto(s, "options")
             ELSE /\ yt' = [yt EXCEPT ![s] = [NoYt EXCEPT !.client = client,
                                                 !.po_token_data = po_token_data]]
                  /\ Emit(s, warning \o <<"err_unavailable">>)
                  /\ Goto(s, "stopped")
    /\ UNCHANGED <<options, args, sel, result, presented, fs, removals>>

(***************************************************************************)
(* download_yt_video, lines 364-392: the option lists and the user's       *)
(* choice among them.  A selectbox with no options yields None.            *)
(***************************************************************************)
Choices(option_list) == IF option_list = << >> THEN {None} ELSE Range(option_list)

download_yt_video_options(s) ==
    /\ pc[s] = "options"
    /\ \E audio_only \in BOOLEAN, progressive_res \in BOOLEAN :
         LET want_audio == audio_only \/ ~progressive_res
             resolutions == IF audio_only THEN << >>
                            ELSE search_yt_resolution(yt[s], progressive_res)
             bit_rates == IF want_audio THEN search_bit_rates(yt[s]) ELSE << >>
         IN  /\ (audio_only => progressive_res)
             /\ \E resolution \in Choices(resolutions), bit_rate \in Choices(bit_rates) :
                  args' = [args EXCEPT ![s] =
                             [resolution |-> resolution,
                              progressive |-> progressive_res,
                              bit_rate |-> bit_rate,
                              audio_only |-> audio_only,
                              entry |-> "ui"]]
             /\ options' = [options EXCEPT ![s] =
                  [resolutions |-> resolutions,
                   bit_rates |-> bit_rates,
                   res_source |-> IF audio_only THEN << >>
                                  ELSE Labels(ResolutionQuery(yt[s], progressive_res)),
                   abr_source |-> IF want_audio
                                  THEN Labels(AudioQuery(yt[s], None)) ELSE << >>]]
    /\ Goto(s, "prepare")
    /\ UNCHANGED <<yt, sel, log, result, presented, fs, removals>>

(***************************************************************************)
(* prepare_yt_media is a function of its own: a caller may hand it a       *)
(* resolution and a bit rate that were not drawn from the option lists.    *)
(***************************************************************************)
prepare_yt_media_call(s) ==
    /\ pc[s] = "options"
    /\ \E resolution \in Resolutions \cup {None}, bit_rate \in BitRates \cup {None},
          progressive \in BOOLEAN, audio_only \in BOOLEAN :
         args' = [args EXCEPT ![s] =
                    [resolution |-> resolution,
                     progressive |-> progressive,
                     bit_rate |-> bit_rate,
                     audio_only |-> audio_only,
                     entry |-> "call"]]
    /\ Goto(s, "prepare")
    /\ UNCHANGED <<yt, options, sel, log, result, presented, fs, removals>>


(***************************************************************************)
(* The branch conditions of prepare_yt_media and _download_audio_stream.   *)
(***************************************************************************)
SkipsVideoNever(audio_only) == FALSE
SkipsVideo(audio_only) == audio_only

MuxNever(progressive) == FALSE
MuxAlways(progressive) == TRUE
MuxNeeded(progressive) == ~progressive

DirectFallbackNever(bit_rate) == FALSE
DirectFallback(bit_rate) == bit_rate = None

FallbackOnMissingNever(stream, yt_obj) == FALSE
FallbackOnMissing(stream, yt_obj) == stream = NoStream /\ ~po_token_present(yt_obj)

FallbackOnSabrAlways(yt_obj) == TRUE
FallbackOnSabr(yt_obj) == ~po_token_present(yt_obj)

(***************************************************************************)
(* An exception nothing in the job catches leaves prepare_yt_media and     *)
(* download_yt_video.                                                      *)
(***************************************************************************)
Raise(s, events) ==
    /\ Emit(s, events \o <<"uncaught">>)
    /\ Goto(s, "crashed")

(***************************************************************************)
(* What prepare_yt_media does with the value _download_audio_stream        *)
(* returns: lines 332-335 of an audio-only job, lines 353-355 of a video   *)
(* job.                                                                    *)
(***************************************************************************)
AudioReturns(s, ok, events) ==
    IF ~ok
    THEN /\ Emit(s, events)
         /\ Goto(s, "done")
         /\ UNCHANGED result
    ELSE IF args[s].audio_only
    THEN /\ Emit(s, events \o <<"ok_audio">>)
         /\ result' = [result EXCEPT ![s] =
                         [file |-> DEFAULT_AUDIO_NAME, mime |-> AUDIO_MIME]]
         /\ Goto(s, "present")
    ELSE /\ Emit(s, events)
         /\ Goto(s, "combine")
         /\ UNCHANGED result

(***************************************************************************)
(* prepare_yt_media, lines 313-345: the form is submitted; an audio-only   *)
(* job goes straight to the audio stream, a video job selects its video    *)
(* stream.                                                                 *)
(***************************************************************************)
prepare_yt_media(s) ==
    /\ pc[s] = "prepare"
    /\ IF SkipsVideo(args[s].audio_only)
       THEN /\ Goto(s, "audio")
            /\ UNCHANGED <<sel, log>>
       ELSE LET video_stream ==
                    First(VideoQuery(yt[s], args[s].resolution, args[s].progressive))
            IN  IF video_stream = NoStream
                THEN /\ Emit(s, <<"err_no_video">>)
                     /\ Goto(s, "done")
                     /\ UNCHANGED sel
                ELSE /\ Select(s, "video", video_stream)
                     /\ Goto(s, "video_dl")
                     /\ UNCHANGED log
    /\ UNCHANGED <<yt, options, args, result, presented, fs, removals>>

(***************************************************************************)
(* prepare_yt_media, lines 347-358: the video download, outside any try.   *)
(***************************************************************************)
download_video(s, outcomes) ==
    /\ pc[s] = "video_dl"
    /\ \E outcome \in outcomes :
         IF outcome = "ok"
         THEN /\ Save(s, DEFAULT_NAME, "video")
              /\ IF MuxNeeded(args[s].progressive)
                 THEN /\ Emit(s, <<"video_downloaded">>)
                      /\ Goto(s, "audio")
                      /\ UNCHANGED result
                 ELSE /\ Emit(s, <<"video_downloaded", "ok_video">>)
                      /\ result' = [result EXCEPT ![s] =
                                      [file |-> DEFAULT_NAME, mime |-> MIME]]
                      /\ Goto(s, "present")
         ELSE /\ Raise(s, IF outcome = "sabr" THEN <<"video_rejected">>
                                              ELSE <<"video_failed">>)
              /\ UNCHANGED <<fs, result>>
    /\ UNCHANGED <<yt, options, args, sel, presented, removals>>

(***************************************************************************)
(* _download_audio_stream, lines 250-273: up to the stream's download.     *)
(***************************************************************************)
download_audio_stream(s) ==
    /\ pc[s] = "audio"
    /\ LET stream == First(AudioQuery(yt[s], args[s].bit_rate))
       IN  IF DirectFallback(args[s].bit_rate) \/ FallbackOnMissing(stream, yt[s])
           THEN /\ Emit(s, <<"fallback">>)
                /\ Goto(s, "fallback")
                /\ UNCHANGED <<sel, result>>
           ELSE IF stream = NoStream
           THEN /\ AudioReturns(s, FALSE, <<"err_no_audio">>)
                /\ UNCHANGED sel
           ELSE /\ Select(s, "audio", stream)
                /\ Goto(s, "audio_dl")
                /\ UNCHANGED <<log, result>>
    /\ UNCHANGED <<yt, options, args, presented, fs, removals>>

(***************************************************************************)
(* _download_audio_stream, lines 275-286: the download and its handler.    *)
(***************************************************************************)
audio_download(s, outcomes) ==
    /\ pc[s] = "audio_dl"
    /\ \E outcome \in outcomes :
         CASE outcome = "ok" ->
                /\ Save(s, DEFAULT_AUDIO_NAME, "audio")
                /\ AudioReturns(s, TRUE, <<"audio_downloaded">>)
           [] outcome = "sabr" ->
                /\ IF FallbackOnSabr(yt[s])
                   THEN /\ Emit(s, <<"audio_rejected", "fallback">>)
                        /\ Goto(s, "fallback")
                        /\ UNCHANGED result
                   ELSE AudioReturns(s, FALSE, <<"audio_rejected", "err_blocked">>)
                /\ UNCHANGED fs
           [] OTHER ->
                /\ Raise(s, <<"audio_failed">>)
                /\ UNCHANGED <<fs, result>>
    /\ UNCHANGED <<yt, options, args, sel, presented, removals>>

(***************************************************************************)
(* _download_audio_via_progressive, lines 232-237.                         *)
(***************************************************************************)
fallback_select(s) ==
    /\ pc[s] = "fallback"
    /\ LET stream == select_progressive_stream(yt[s])
       IN  IF stream = NoStream
           THEN /\ AudioReturns(s, FALSE, <<"err_no_progressive">>)
                /\ UNCHANGED sel
           ELSE /\ Select(s, "progressive", stream)
                /\ Emit(s, <<"info_extracting">>)
                /\ Goto(s, "fallback_dl")
                /\ UNCHANGED result
    /\ UNCHANGED <<yt, options, args, presented, fs, removals>>

(***************************************************************************)
(* _download_audio_via_progressive, lines 238-241: outside any try.        *)
(***************************************************************************)
fallback_download(s, outcomes) ==
    /\ pc[s] = "fallback_dl"
    /\ \E outcome \in outcomes :
         IF outcome = "ok"
         THEN /\ Save(s, AUDIO_SOURCE_NAME, "source")
              /\ Emit(s, <<"progressive_downloaded">>)
              /\ Goto(s, "extract")
         ELSE /\ Raise(s, IF outcome = "sabr" THEN <<"progressive_rejected">>
                                              ELSE <<"progressive_failed">>)
              /\ UNCHANGED fs
    /\ UNCHANGED <<yt, options, args, sel, result, presented, removals>>

(***************************************************************************)
(* _download_audio_via_progressive, lines 242-247, with                    *)
(* _extract_audio_from_video: the source file may be gone, the clip may    *)
(* have no audio track; the source file is unlinked in every case.         *)
(***************************************************************************)
extract_audio(s, tracks) ==
    /\ pc[s] = "extract"
    /\ LET source_path == FilePath(s, AUDIO_SOURCE_NAME)
           source == fs[source_path]
       IN  IF source = Absent
           THEN /\ AudioReturns(s, FALSE, <<"err_missing_source">>)
                /\ UNCHANGED fs
           ELSE \E has_track \in tracks :
                  IF has_track
                  THEN /\ fs' = [fs EXCEPT
                                   ![FilePath(s, DEFAULT_AUDIO_NAME)] =
                                       [what |-> "audio", from |-> source.from],
                                   ![source_path] = Absent]
                       /\ AudioReturns(s, TRUE, <<"audio_extracted">>)
                  ELSE /\ fs' = [fs EXCEPT ![source_path] = Absent]
                       /\ AudioReturns(s, FALSE, <<"err_no_track">>)
    /\ UNCHANGED <<yt, options, args, sel, presented, removals>>

(***************************************************************************)
(* combine, and lines 357-358 after it: no check that the files exist, no  *)
(* handler around the clips' constructors.                                 *)
(***************************************************************************)
combine(s) ==
    /\ pc[s] = "combine"
    /\ LET video_clip == fs[FilePath(s, DEFAULT_NAME)]
           audio_clip == fs[FilePath(s, DEFAULT_AUDIO_NAME)]
       IN  IF video_clip = Absent \/ audio_clip = Absent
           THEN /\ Raise(s, <<"combine", "file_not_found">>)
                /\ UNCHANGED <<fs, result>>
           ELSE /\ fs' = [fs EXCEPT ![FilePath(s, DEFAULT_NAME)] =
                            [what |-> "muxed",
                             from |-> video_clip.from \cup audio_clip.from]]
                /\ Emit(s, <<"combine", "ok_video">>)
                /\ result' = [result EXCEPT ![s] =
                                [file |-> DEFAULT_NAME, mime |-> MIME]]
                /\ Goto(s, "present")
    /\ UNCHANGED <<yt, options, args, sel, presented, removals>>

(***************************************************************************)
(* download_yt_video, lines 402-413, with download_video_locally: the      *)
(* returned file is opened and handed to the download button.              *)
(***************************************************************************)
download_video_locally(s) ==
    /\ pc[s] = "present"
    /\ LET file == fs[FilePath(s, result[s].file)]
       IN  IF file = Absent
           THEN /\ Raise(s, <<"open_failed">>)
                /\ UNCHANGED presented
           ELSE /\ presented' = [presented EXCEPT ![s] = file]
                /\ Emit(s, <<"present">>)
                /\ Goto(s, "done")
    /\ UNCHANGED <<yt, options, args, sel, result, fs, removals>>

(***************************************************************************)
(* The working directory is not the program's alone: a file may be removed *)
(* from outside, which is what _extract_audio_from_video's exists() check  *)
(* allows for.                                                             *)
(***************************************************************************)
external_remove ==
    /\ removals < MaxRemovals
    /\ \E name \in FixedNames :
         /\ fs[<<SAVE_PATH, name>>] # Absent
         /\ fs' = [fs EXCEPT ![<<SAVE_PATH, name>>] = Absent]
    /\ removals' = removals + 1
    /\ UNCHANGED <<pc, yt, options, args, sel, log, result, presented>>

(***************************************************************************)
(* search_yt_resolution and search_bit_rates, applied to the labels of any *)
(* filtered stream list of at most MaxLabels streams.                      *)
(***************************************************************************)
SoloSessions == {1}

LabelLists(labels) == UNION {[1 .. n -> labels] : n \in 0 .. MaxLabels}

search_options(s) ==
    /\ pc[s] = "start"
    /\ \E resolutions \in LabelLists(Resolutions), bit_rates \in LabelLists(BitRates) :
         options' = [options EXCEPT ![s] =
                       [resolutions |-> sort_results(resolutions, 1),
                        bit_rates |-> sort_results(bit_rates, 4),
                        res_source |-> resolutions,
                        abr_source |-> bit_rates]]
    /\ Goto(s, "listed")
    /\ UNCHANGED <<yt, args, sel, log, result, presented, fs, removals>>

NextSelector == \E s \in SoloSessions : search_options(s)

SpecSelector == Init /\ [][NextSelector]_vars

(***************************************************************************)
(* One job, every outcome of the environment.                              *)
(***************************************************************************)
Next ==
  \E s \in SoloSessions :
    \/ get_yt_obj(s, Catalogs, TokenOutcomes, CtorOutcomes)
    \/ download_yt_video_options(s)
    \/ prepare_yt_media_call(s)
    \/ prepare_yt_media(s)
    \/ download_video(s, DownloadOutcomes)
    \/ download_audio_stream(s)
    \/ audio_download(s, DownloadOutcomes)
    \/ fallback_select(s)
    \/ fallback_download(s, DownloadOutcomes)
    \/ extract_audio(s, BOOLEAN)
    \/ combine(s)
    \/ download_video_locally(s)
    \/ external_remove

Spec == Init /\ [][Next]_vars

(***************************************************************************)
(* Concurrent sessions of the one Streamlit process, each running a job    *)
(* chosen in the UI, over the same working directory.                      *)
(***************************************************************************)
ConcurrentCatalogs == {AdaptiveOnly, ProgressiveOnly}

NextConcurrent ==
    \E s \in Sessions :
        \/ get_yt_obj(s, ConcurrentCatalogs, {"raise"}, {"ok"})
        \/ download_yt_video_options(s)
        \/ prepare_yt_media(s)
        \/ download_video(s, {"ok"})
        \/ download_audio_stream(s)
        \/ audio_download(s, {"ok"})
        \/ fallback_select(s)
        \/ fallback_download(s, {"ok"})
        \/ extract_audio(s, {TRUE})
        \/ combine(s)
        \/ download_video_locally(s)

SpecConcurrent == Init /\ [][NextConcurrent]_vars


(***************************************************************************)
(* Vocabulary of the properties.                                           *)
(***************************************************************************)
Has(s, event) == \E i \in DOMAIN log[s] : log[s][i] = event

Count(s, event) == Cardinality({i \in DOMAIN log[s] : log[s][i] = event})

Precedes(s, first, then) ==
    \A j \in DOMAIN log[s] :
        log[s][j] = then => \E i \in 1 .. (j - 1) : log[s][i] = first

Selected(s, role) == Cardinality({i \in DOMAIN sel[s] : sel[s][i].role = role})

Ended(s) == pc[s] \in {"done", "crashed"}

Submitted(s) == pc[s] \notin {"start", "stopped", "options", "prepare"}

DownloadEvents ==
    {"video_downloaded", "video_rejected", "video_failed",
     "audio_downloaded", "audio_rejected", "audio_failed",
     "progressive_downloaded", "progressive_rejected", "progressive_failed"}

Downloads(s) == Cardinality({i \in DOMAIN log[s] : log[s][i] \in DownloadEvents})

(* What the environment, not the program, makes fail. *)
FaultEvents ==
    {"video_rejected", "video_failed", "audio_rejected", "audio_failed",
     "progressive_rejected", "progressive_failed",
     "err_missing_source", "err_no_track", "file_not_found", "open_failed"}

Undisturbed(s) == \A i \in DOMAIN log[s] : log[s][i] \notin FaultEvents

ErrorEvents ==
    {"err_unavailable", "err_no_video", "err_no_audio", "err_blocked",
     "err_no_progressive", "err_missing_source", "err_no_track"}

MatchingVideo(s) ==
    First(VideoQuery(yt[s], args[s].resolution, args[s].progressive)) # NoStream

MatchingAudio(s) ==
    /\ args[s].bit_rate # None
    /\ First(AudioQuery(yt[s], args[s].bit_rate)) # NoStream

AdaptiveJob(s) ==
    /\ Submitted(s)
    /\ ~args[s].audio_only
    /\ ~args[s].progressive
    /\ MatchingVideo(s)
    /\ MatchingAudio(s)

(***************************************************************************)
(* C1.  An adaptive video job (audio_only false, progressive false) whose  *)
(* resolution and bit rate both match a stream invokes combine at most     *)
(* once, and only after the video download and the audio download (or      *)
(* extraction) have completed; and when the remote service accepts the     *)
(* downloads, the job ends with the video stream downloaded, the audio     *)
(* stream downloaded and combine invoked exactly once.                     *)
(***************************************************************************)
C1_AdaptiveDownloadsBothThenMuxesOnce ==
    \A s \in Sessions :
        AdaptiveJob(s) =>
            /\ Count(s, "combine") <= 1
            /\ Precedes(s, "video_downloaded", "combine")
            /\ \/ Precedes(s, "audio_downloaded", "combine")
               \/ Precedes(s, "audio_extracted", "combine")
            /\ (Ended(s) /\ Undisturbed(s)) =>
                   /\ Count(s, "video_downloaded") = 1
                   /\ Count(s, "audio_downloaded") = 1
                   /\ Count(s, "combine") = 1
                   /\ Selected(s, "video") = 1
                   /\ Selected(s, "audio") = 1

C1_Witness ==
    \E s \in Sessions :
        /\ AdaptiveJob(s)
        /\ pc[s] = "done"
        /\ Undisturbed(s)
        /\ log[s] = <<"warn_po_token", "video_downloaded", "audio_downloaded",
                      "combine", "ok_video", "present">>
        /\ presented[s].what = "muxed"

ProgressiveJob(s) ==
    /\ Submitted(s)
    /\ ~args[s].audio_only
    /\ args[s].progressive
    /\ MatchingVideo(s)

(***************************************************************************)
(* C2.  A progressive video job (audio_only false, progressive true) whose *)
(* resolution matches a stream performs exactly one download, never        *)
(* invokes combine, and neither selects nor downloads an audio stream.     *)
(***************************************************************************)
C2_ProgressiveOneDownloadNoMux ==
    \A s \in Sessions :
        ProgressiveJob(s) =>
            /\ Downloads(s) <= 1
            /\ Ended(s) => Downloads(s) = 1
            /\ (Ended(s) /\ Undisturbed(s)) => Count(s, "video_downloaded") = 1
            /\ ~Has(s, "combine")
            /\ pc[s] # "combine"
            /\ Selected(s, "audio") = 0
            /\ Selected(s, "progressive") = 0
            /\ ~Has(s, "fallback")
            /\ fs[FilePath(s, DEFAULT_AUDIO_NAME)] = Absent

C2_Witness ==
    \E s \in Sessions :
        /\ ProgressiveJob(s)
        /\ pc[s] = "done"
        /\ Downloads(s) = 1
        /\ Has(s, "ok_video")
        /\ presented[s] = Content(s, "video")


NoBitRateAudioJob(s) ==
    /\ Submitted(s)
    /\ args[s].audio_only
    /\ args[s].bit_rate = None
    /\ (args[s].entry = "ui" => options[s].bit_rates = << >>)

(***************************************************************************)
(* C3.  An audio-only job with no bit rate to choose (search_bit_rates     *)
(* returned nothing, so bit_rate is None) never reports a missing audio    *)
(* stream and selects none: it goes to the progressive fallback first, and *)
(* whenever a progressive stream exists and neither its download nor the   *)
(* extraction is made to fail from outside, the job succeeds with the      *)
(* extracted audio.                                                        *)
(***************************************************************************)
C3_NoAdaptiveAudioFallsBack ==
    \A s \in Sessions :
        NoBitRateAudioJob(s) =>
            /\ ~Has(s, "err_no_audio")
            /\ ~Has(s, "err_blocked")
            /\ Selected(s, "audio") = 0
            /\ pc[s] # "audio_dl"
            /\ pc[s] # "audio" => Has(s, "fallback")
            /\ \A i \in DOMAIN log[s] :
                   log[s][i] \in ErrorEvents => \E j \in 1 .. (i - 1) : log[s][j] = "fallback"
            /\ (Ended(s) /\ Undisturbed(s)
                  /\ select_progressive_stream(yt[s]) # NoStream) =>
                   /\ pc[s] = "done"
                   /\ Has(s, "progressive_downloaded")
                   /\ Has(s, "audio_extracted")
                   /\ Has(s, "ok_audio")
                   /\ result[s] = [file |-> DEFAULT_AUDIO_NAME, mime |-> AUDIO_MIME]
                   /\ presented[s] = Content(s, "audio")

C3_Witness ==
    \E s \in Sessions :
        /\ NoBitRateAudioJob(s)
        /\ args[s].entry = "ui"
        /\ pc[s] = "done"
        /\ Has(s, "fallback")
        /\ Has(s, "audio_extracted")
        /\ presented[s] = Content(s, "audio")

UnmatchedBitRateJob(s) ==
    /\ Submitted(s)
    /\ (args[s].audio_only \/ ~args[s].progressive)
    /\ args[s].bit_rate # None
    /\ First(AudioQuery(yt[s], args[s].bit_rate)) = NoStream
    /\ ~po_token_present(yt[s])

AudioStreamLeft(s) ==
    \/ pc[s] \in {"fallback", "fallback_dl", "extract", "combine", "present"}
    \/ Ended(s) /\ (args[s].audio_only \/ Has(s, "video_downloaded"))

FallbackFailures == {"err_no_progressive", "err_missing_source", "err_no_track"}

(***************************************************************************)
(* C4.  When a bit rate is chosen, no audio stream matches it and the      *)
(* source carries no PoToken, the audio download goes to the progressive   *)
(* fallback: the missing stream is never reported, and whatever error the  *)
(* audio download reports comes after the fallback was entered and is one  *)
(* of the fallback's own failures.                                         *)
(***************************************************************************)
C4_UnmatchedBitRateRetriesViaProgressive ==
    \A s \in Sessions :
        UnmatchedBitRateJob(s) =>
            /\ ~Has(s, "err_no_audio")
            /\ Selected(s, "audio") = 0
            /\ AudioStreamLeft(s) => Count(s, "fallback") = 1
            /\ \A i \in DOMAIN log[s] :
                   log[s][i] \in ErrorEvents \ {"err_no_video"} =>
                       /\ log[s][i] \in FallbackFailures
                       /\ \E j \in 1 .. (i - 1) : log[s][j] = "fallback"
            /\ (Ended(s) /\ AudioStreamLeft(s) /\ result[s] = NoResult) =>
                   \/ \E i \in DOMAIN log[s] : log[s][i] \in FallbackFailures
                   \/ pc[s] = "crashed"

C4_Witness ==
    \E s \in Sessions :
        /\ UnmatchedBitRateJob(s)
        /\ pc[s] = "done"
        /\ Has(s, "fallback")
        /\ Has(s, "progressive_downloaded")
        /\ Has(s, "err_no_track")

C4_WitnessRecovered ==
    \E s \in Sessions :
        /\ UnmatchedBitRateJob(s)
        /\ pc[s] = "done"
        /\ Has(s, "fallback")
        /\ Has(s, "audio_extracted")
        /\ presented[s] # Absent


Rejected(s) == Has(s, "video_rejected") \/ Has(s, "audio_rejected")

C5_WitnessBlocked ==
    \E s \in Sessions :
        /\ Has(s, "audio_rejected")
        /\ po_token_present(yt[s])
        /\ Has(s, "err_blocked")
        /\ pc[s] = "done"

MuxInputMissing(s) == Has(s, "combine") /\ Has(s, "file_not_found")

(***************************************************************************)
(* C6, as claimed.  When combine is reached with the video file or the     *)
(* audio file absent, the job reports the failure, no exception leaves it, *)
(* and nothing is presented as prepared.                                   *)
(***************************************************************************)
C6_MuxFailsGracefully ==
    \A s \in Sessions :
        MuxInputMissing(s) =>
            /\ pc[s] # "crashed"
            /\ ~Has(s, "uncaught")
            /\ \E i \in DOMAIN log[s] : log[s][i] \in ErrorEvents
            /\ ~Has(s, "ok_video")
            /\ presented[s] = Absent

VideoSelections(s) == Selected(s, "video") + Selected(s, "progressive")

(***************************************************************************)
(* C8, as claimed.  Every job, whatever its mode and fallback path,        *)
(* selects exactly one video stream and at most one audio stream; stated   *)
(* here of the jobs that end with a prepared file.                         *)
(***************************************************************************)
C8_ExactlyOneVideoStream ==
    \A s \in Sessions :
        (pc[s] = "done" /\ result[s] # NoResult) =>
            /\ VideoSelections(s) = 1
            /\ Selected(s, "audio") <= 1

(***************************************************************************)
(* C8, amended.  Every job selects at most one audio stream, at most one   *)
(* video stream by resolution and at most one progressive stream for the   *)
(* fallback.  A video job that ends has selected exactly one stream by     *)
(* resolution unless it reported that none matches; an audio-only job      *)
(* selects none by resolution.  A progressive stream is selected only      *)
(* inside the fallback, so a video job whose audio falls back selects two  *)
(* streams that carry video, and an audio-only job whose audio stream      *)
(* downloads directly selects none.                                        *)
(***************************************************************************)
C8_AtMostOnePerRole ==
    \A s \in Sessions :
        /\ Selected(s, "audio") <= 1
        /\ Selected(s, "video") <= 1
        /\ Selected(s, "progressive") <= 1
        /\ Len(sel[s]) <= 3
        /\ args[s].audio_only => Selected(s, "video") = 0
        /\ (Ended(s) /\ Submitted(s) /\ ~args[s].audio_only) =>
               (Selected(s, "video") = 1 <=> ~Has(s, "err_no_video"))
        /\ Selected(s, "progressive") = 1 => Has(s, "fallback")
        /\ (Has(s, "audio_downloaded") /\ args[s].audio_only) => VideoSelections(s) = 0

C8_Witness ==
    \E s \in Sessions :
        /\ pc[s] = "done"
        /\ ~args[s].audio_only
        /\ Selected(s, "video") = 1
        /\ Selected(s, "audio") = 1
        /\ Selected(s, "progressive") = 1
        /\ Has(s, "combine")
        /\ presented[s] # Absent

C8_WitnessAudioOnly ==
    \E s \in Sessions :
        /\ pc[s] = "done"
        /\ args[s].audio_only
        /\ VideoSelections(s) = 0
        /\ Selected(s, "audio") = 1
        /\ presented[s] = Content(s, "audio")

Resolved(s) == pc[s] \notin {"start", "stopped"}

(***************************************************************************)
(* C9.  A failure to obtain the PoToken pair never stops source            *)
(* resolution: get_yt_obj warns and builds the source with the ANDROID_VR  *)
(* client.  The WEB client is used exactly when a pair was obtained, and   *)
(* the pair is applied to every source built with one and to no other.     *)
(***************************************************************************)
C9_TokenFailureDegrades ==
    \A s \in Sessions :
        /\ pc[s] # "start" =>
             /\ yt[s].client = "WEB" <=> yt[s].po_token_data
             /\ yt[s].client = "ANDROID_VR" <=> ~yt[s].po_token_data
             /\ Has(s, "warn_po_token") <=> ~yt[s].po_token_data
             /\ pc[s] = "stopped" <=> Has(s, "err_unavailable")
        /\ Resolved(s) =>
             /\ Has(s, "apply_po_token") <=> yt[s].po_token_data
             /\ yt[s].po_token # "absent" <=> yt[s].po_token_data
        /\ (Has(s, "warn_po_token") /\ ~Has(s, "err_unavailable")) =>
             /\ log[s][1] = "warn_po_token"
             /\ Resolved(s)
             /\ yt[s].client = "ANDROID_VR"
             /\ ~po_token_present(yt[s])

C9_Witness ==
    \E s \in Sessions :
        /\ Has(s, "warn_po_token")
        /\ yt[s].client = "ANDROID_VR"
        /\ ~yt[s].po_token_data
        /\ pc[s] = "done"
        /\ presented[s] # Absent


LabelValue(label) ==
    CASE label = R144p -> 144 [] label = R360p -> 360 [] label = R720p -> 720
      [] label = R1080p -> 1080 [] label = B48kbps -> 48
      [] label = B128kbps -> 128 [] label = B160kbps -> 160

IsSelectorList(shown, source) ==
    /\ Range(shown) = Range(source)
    /\ \A i, j \in DOMAIN shown : i # j => shown[i] # shown[j]
    /\ Len(shown) = Cardinality(Range(source))
    /\ \A i, j \in DOMAIN shown : i < j => LabelValue(shown[i]) > LabelValue(shown[j])

(***************************************************************************)
(* C7.  The option list made of any list of resolutions (suffix of one     *)
(* character) or of bit rates (suffix of four) holds every distinct label  *)
(* of the list once and nothing else, in descending order of the number    *)
(* the label names.                                                        *)
(***************************************************************************)
C7_SelectorSortedDescendingDeduplicated ==
    \A s \in Sessions :
        /\ IsSelectorList(options[s].resolutions, options[s].res_source)
        /\ IsSelectorList(options[s].bit_rates, options[s].abr_source)

C7_Witness ==
    \E s \in Sessions :
        /\ options[s].res_source = <<R720p, R1080p, R720p>>
        /\ options[s].resolutions = <<R1080p, R720p>>
        /\ options[s].abr_source = <<B48kbps, B128kbps, B48kbps>>
        /\ options[s].bit_rates = <<B128kbps, B48kbps>>

(***************************************************************************)
(* C10.  Every file any job writes lies under the one SAVE_PATH with one   *)
(* of the three fixed names, whichever session runs the job; so with two   *)
(* sessions running jobs at once, a session can be handed, or can mux,     *)
(* bytes that another session's job wrote.                                 *)
(***************************************************************************)
C10_AllJobsShareFixedFiles ==
    /\ \A p \in Paths : fs[p] # Absent => p[1] = SAVE_PATH /\ p[2] \in FixedNames
    /\ \A s \in Sessions :
         /\ presented[s] # Absent => presented[s].from # {}
         /\ (pc[s] = "present" /\ Has(s, "ok_video")) =>
                fs[<<SAVE_PATH, DEFAULT_NAME>>] # Absent
         /\ (pc[s] = "present" /\ Has(s, "ok_audio")) =>
                fs[<<SAVE_PATH, DEFAULT_AUDIO_NAME>>] # Absent
         /\ Has(s, "video_downloaded") => fs[<<SAVE_PATH, DEFAULT_NAME>>] # Absent

C10_Witness ==
    \E s \in Sessions :
        /\ pc[s] = "done"
        /\ Has(s, "present")
        /\ presented[s].from \ {s} # {}

C10_WitnessMux ==
    \E s \in Sessions :
        /\ Has(s, "combine")
        /\ fs[<<SAVE_PATH, DEFAULT_NAME>>].what = "muxed"
        /\ s \in fs[<<SAVE_PATH, DEFAULT_NAME>>].from
        /\ fs[<<SAVE_PATH, DEFAULT_NAME>>].from \ {s} # {}

=============================================================================
